---- MODULE Spec2Model ----
(***************************************************************************)
(* Windowed time-series aggregation of codigos/L5_M10.py (get_L5, get_M10) *)
(* and of the one-minute bucketing loop of codigos/feature_calculator.py.  *)
(*                                                                         *)
(* A pandas Series is a sequence of records [t |-> timestamp, v |-> value] *)
(* in index order.  For get_L5 / get_M10 a timestamp is a number of        *)
(* half-hours since a local midnight (no DST change inside the record), so *)
(* that timedelta(hours=2.5) is the integer 5.  A mean (of values or of    *)
(* timestamps) is kept exact as a pair numerator / denominator.            *)
(***************************************************************************)
EXTENDS Integers, Sequences, FiniteSets, TLC

\* ------------------------------------------------------------------ bounds
MaxLen == 4                \* longest generated series (number of samples)
MaxVTime == 9              \* latest sample time of a generated chunk (15 s ticks)

\* ------------------------------------------- program constants (half-hours)
W5 == 10                   \* datetime.timedelta(hours=5)
Half5 == 5                 \* datetime.timedelta(hours=2.5)
MinSpan5 == 10             \* 5*3600 seconds
W10 == 20                  \* datetime.timedelta(hours=10)
Half10 == 10               \* datetime.timedelta(hours=5)
Day == 48                  \* datetime.timedelta(days=1)

\* For the one-minute bucketing a timestamp is a number of quarter-minutes
\* (15 s) since a clock minute mark.
Minute == 4                \* datetime.timedelta(minutes=1)
Hour == 240                \* datetime.timedelta(hours=1)
VDay == 5760               \* datetime.timedelta(days=1)

\* ------------------------------------------------------------------ inputs
\* Sample times the generated series draw from (hours), and sample values.
GridHours == {0, 5, 10, 19, 22, 24, 29, 34, 48, 58}
TimeGrid == {2 * h : h \in GridHours}
Values == {1, 10}

RECURSIVE SortedTimes(_)
SortedTimes(S) ==
  IF S = {} THEN <<>>
  ELSE LET m == CHOOSE x \in S : \A y \in S : x <= y
       IN  <<m>> \o SortedTimes(S \ {m})

\* The series with the timestamps of S (strictly increasing) and values val.
MkSeries(S, val) ==
  LET ts == SortedTimes(S) IN [i \in 1..Len(ts) |-> [t |-> ts[i], v |-> val[ts[i]]]]

GeneratedSeries ==
  UNION { { MkSeries(S, val) : val \in [S -> Values] } :
          S \in { X \in SUBSET TimeGrid : Cardinality(X) >= 1 /\ Cardinality(X) <= MaxLen } }

\* The scenario of the specification: 6 hourly samples [10,10,10,1,1,1] from
\* 2024-01-01T00:00 (a midnight, time 0).
ScenarioSeries ==
  [i \in 1..6 |-> [t |-> 2 * (i - 1), v |-> IF i <= 3 THEN 10 ELSE 1]]

\* Three-day records made of one day repeated: a one-day segment with samples
\* at some of 00:00, 05:00, 19:00 and 23:30, then the same values at the same
\* times of day on the two following days.
SegmentTimes == {0, 2 * 5, 2 * 19, 2 * 24 - 1}

DaySegments ==
  UNION { { MkSeries(S, val) : val \in [S -> Values] } :
          S \in { X \in SUBSET SegmentTimes : Cardinality(X) >= 2 } }

Shifted(s, k) == [j \in DOMAIN s |-> [t |-> s[j].t + k * 48, v |-> s[j].v]]

Triple(s) == s \o Shifted(s, 1) \o Shifted(s, 2)

TripleSeries == { Triple(s) : s \in DaySegments }

InputSeries == GeneratedSeries \cup {ScenarioSeries} \cup TripleSeries

\* ------------------------------------------------------------------- state
VARIABLES
  fn,          \* which function is called: "L5" (get_L5) or "M10" (get_M10)
  data,        \* the argument <data>
  pc,          \* position in the call: start, day, scan, pick, done, raised
  chunked,     \* TRUE once the longer-than-one-day branch is taken
  beg_day,     \* cursor of the day loop
  end_day,     \* end of the current day
  Ls,          \* L5s / M10s: the per-day results, in order
  short_data,  \* argument of get_L5_short_period / get_M10_short_period
  i,           \* position of the for loop over short_data.index
  averages,    \* averages_5h / averages_10h: the dict, in insertion order
  L,           \* value returned by the last short-period call (NoValue: none)
  segs,        \* history: the slices handed to the short-period function
  result,      \* value returned by get_L5 / get_M10
  r,           \* get_VMC_serie*: the chunk r / r_1hour whose buckets are taken
  anchor,      \* beg_timestamp / hour_beg: where the minute cursor starts
  minute,      \* cursor of the minute loop
  vmc_serie,   \* the dict vmc_serie, in insertion order
  buckets,     \* history: the slices handed to get_VMC
  vmcs,        \* history: the one-entry dicts get_VMC returned, in call order
  vpc,         \* position in the bucketing: loop, done (idle: not running)
  args,        \* get_VMC_serie: on_weekday, on_weekend and the participant's dates
  db,          \* the participant's acceleration samples in the database
  days,        \* the list days
  day_i,       \* position of "for day_beg in days"
  day_end,     \* end of the current day
  hour_end,    \* end of the current hour
  response,    \* get_acc_data: what query_acc_data returned
  df_acc,      \* the frame get_acc_data returns
  r_acc,       \* the series get_r returns
  apc          \* position in get_r(get_acc_data(..)): query, frame, returned, KeyError

l5vars == <<fn, data, pc, chunked, beg_day, end_day, Ls, short_data, i,
            averages, L, segs, result>>
vmcvars == <<r, anchor, minute, vmc_serie, buckets, vmcs, vpc>>
serievars == <<args, db, days, day_i, day_end, hour_end>>
accvars == <<response, df_acc, r_acc, apc>>
vars == <<l5vars, vmcvars, serievars, accvars>>

NoValue == -1
NoResult == [tag |-> "none", num |-> 0, den |-> 1]
FalseResult == [tag |-> "False", num |-> 0, den |-> 1]
Timestamp(n, d) == [tag |-> "ts", num |-> n, den |-> d]

\* ----------------------------------------------------------------- helpers
beg_timestamp == data[1].t                \* data.index[0]
end_timestamp == data[Len(data)].t        \* data.index[-1]

Duration == IF fn = "L5" THEN W5 ELSE W10
HalfDuration == IF fn = "L5" THEN Half5 ELSE Half10

SliceAfterLabel(s, lo, hi) == SelectSeq(s, LAMBDA x : lo < x.t /\ x.t <= hi)

\* pandas label slicing s[lo:hi] on a sorted DatetimeIndex: both ends included.
Slice(s, lo, hi) == SelectSeq(s, LAMBDA x : lo <= x.t /\ x.t <= hi)

RECURSIVE SumValues(_)
SumValues(s) == IF s = <<>> THEN 0 ELSE s[1].v + SumValues(Tail(s))

\* Series.mean() of a window, as the exact fraction sum / cnt.
Mean(s) == [sum |-> SumValues(s), cnt |-> Len(s)]

\* a < b for two means (cross multiplication, counts are positive).
MeanLess(a, b) == a.sum * b.cnt < b.sum * a.cnt

\* (t + timedelta(days=1)).replace(hour=0, minute=0, second=0, microsecond=0)
NextMidnight(t) == ((t + Day) \div Day) * Day

\* "if end_window > short_data.index[-1]: break"
OverflowsInclusive(end_window, last) == end_window >= last
OverflowsByAnchor(end_window, last) == end_window - 10 > last
Overflows(end_window, last) == end_window > last

\* averages[key] = mean on a dict that keeps insertion order.
DictSet(d, key, mean) ==
  IF \E k \in DOMAIN d : d[k].key = key
  THEN [k \in DOMAIN d |-> IF d[k].key = key THEN [key |-> key, mean |-> mean] ELSE d[k]]
  ELSE Append(d, [key |-> key, mean |-> mean])

\* min(d, key=d.get) / max(d, key=d.get): the builtin walks the keys in order
\* and replaces its candidate only by a strictly better one.
RECURSIVE Best(_, _, _)
Best(d, k, cand) ==
  IF k > Len(d) THEN d[cand].key
  ELSE IF (fn = "L5" /\ MeanLess(d[k].mean, d[cand].mean))
          \/ (fn = "M10" /\ MeanLess(d[cand].mean, d[k].mean))
       THEN Best(d, k + 1, k)
       ELSE Best(d, k + 1, cand)

RECURSIVE BestLast(_, _, _)
BestLast(d, k, cand) ==
  IF k > Len(d) THEN d[cand].key
  ELSE IF (fn = "L5" /\ ~MeanLess(d[cand].mean, d[k].mean))
          \/ (fn = "M10" /\ ~MeanLess(d[k].mean, d[cand].mean))
       THEN BestLast(d, k + 1, k)
       ELSE BestLast(d, k + 1, cand)

ExtremumKeyLast(d) == BestLast(d, 2, 1)
ExtremumKey(d) == Best(d, 2, 1)

RECURSIVE SumSeq(_)
SumSeq(s) == IF s = <<>> THEN 0 ELSE s[1] + SumSeq(Tail(s))

\* pd.Series(L5s).mean(): the timestamps averaged as numbers.
MeanOfTimestamps(s) == Timestamp(SumSeq(s), Len(s))

NoArgs == [on_weekday |-> FALSE, on_weekend |-> FALSE, timestampStart |-> 0,
           timestampEnd |-> 0, listSaturdays |-> <<>>, listSundays |-> <<>>]

\* The variables of get_VMC_serie while it is not running.
SerieIdle ==
  /\ args = NoArgs
  /\ db = <<>>
  /\ days = <<>>
  /\ day_i = 1
  /\ day_end = NoValue
  /\ hour_end = NoValue

NoChannel == [t \in {} |-> 0]
NoResponse == [ok |-> FALSE, lateral |-> NoChannel, longitudinal |-> NoChannel,
               vertical |-> NoChannel]
NoFrame == [columns |-> {}, rows |-> <<>>]

\* The variables of get_acc_data / get_r while they are not running.
AccIdle ==
  /\ response = NoResponse
  /\ df_acc = NoFrame
  /\ r_acc = <<>>
  /\ apc = "idle"

\* -------------------------------------------------------------------- Init
Init ==
  /\ fn \in {"L5", "M10"}
  /\ data \in InputSeries
  /\ pc = "start"
  /\ chunked = FALSE
  /\ beg_day = NoValue
  /\ end_day = NoValue
  /\ Ls = <<>>
  /\ short_data = <<>>
  /\ i = 1
  /\ averages = <<>>
  /\ L = NoValue
  /\ segs = <<>>
  /\ result = NoResult
  /\ r = <<>>
  /\ anchor = 0
  /\ minute = 0
  /\ vmc_serie = <<>>
  /\ buckets = <<>>
  /\ vmcs = <<>>
  /\ vpc = "idle"
  /\ SerieIdle
  /\ AccIdle

\* ----------------------------------------------------------------- actions
\* "if (end_timestamp - beg_timestamp).total_seconds() < 5*3600"
ShorterOrEqual5Hours(b, e) == e - b <= MinSpan5
ShorterThan5Hours(b, e) == e - b < MinSpan5

\* get_L5 only: the record is shorter than 5 hours, return False.
TooShort ==
  /\ pc = "start"
  /\ fn = "L5"
  /\ ShorterThan5Hours(beg_timestamp, end_timestamp)
  /\ result' = FalseResult
  /\ pc' = "done"
  /\ UNCHANGED <<vmcvars, serievars, accvars>>
  /\ UNCHANGED <<fn, data, chunked, beg_day, end_day, Ls, short_data, i,
                 averages, L, segs>>

PassesGuard == fn = "M10" \/ ~ShorterThan5Hours(beg_timestamp, end_timestamp)

\* "if beg_timestamp + timedelta(days=1) < end_timestamp"
OneDayOrLonger == beg_timestamp + Day <= end_timestamp
LongerThanOneDay == beg_timestamp + Day < end_timestamp

\* The record is longer than one day: enter the day loop.
BeginDays ==
  /\ pc = "start"
  /\ PassesGuard
  /\ LongerThanOneDay
  /\ chunked' = TRUE
  /\ beg_day' = beg_timestamp
  /\ Ls' = <<>>
  /\ pc' = "day"
  /\ UNCHANGED <<vmcvars, serievars, accvars>>
  /\ UNCHANGED <<fn, data, end_day, short_data, i, averages, L, segs, result>>

\* Otherwise the short-period function is called on the entire record.
CallWhole ==
  /\ pc = "start"
  /\ PassesGuard
  /\ ~LongerThanOneDay
  /\ short_data' = data
  /\ i' = 1
  /\ averages' = <<>>
  /\ pc' = "scan"
  /\ UNCHANGED <<vmcvars, serievars, accvars>>
  /\ UNCHANGED <<fn, data, chunked, beg_day, end_day, Ls, L, segs, result>>

\* end_day of the iteration that starts at beg_day.
EndOfDay(b) ==
  IF NextMidnight(b) > end_timestamp THEN end_timestamp ELSE NextMidnight(b)

\* One iteration of "while beg_day < end_timestamp" up to the call
\* get_L5_short_period(data[beg_day:end_day]).
DayIter ==
  /\ pc = "day"
  /\ beg_day < end_timestamp
  /\ end_day' = EndOfDay(beg_day)
  /\ short_data' = Slice(data, beg_day, EndOfDay(beg_day))
  /\ segs' = Append(segs, [lo |-> beg_day, hi |-> EndOfDay(beg_day),
                           samples |-> Slice(data, beg_day, EndOfDay(beg_day))])
  /\ i' = 1
  /\ averages' = <<>>
  /\ L' = NoValue
  /\ pc' = "scan"
  /\ UNCHANGED <<vmcvars, serievars, accvars>>
  /\ UNCHANGED <<fn, data, chunked, beg_day, Ls, result>>

\* The day loop is over: average the per-day results and return.
DayExit ==
  /\ pc = "day"
  /\ ~(beg_day < end_timestamp)
  /\ result' = MeanOfTimestamps(Ls)
  /\ pc' = "done"
  /\ UNCHANGED <<vmcvars, serievars, accvars>>
  /\ UNCHANGED <<fn, data, chunked, beg_day, end_day, Ls, short_data, i,
                 averages, L, segs>>

beg_window == short_data[i].t
end_window == beg_window + Duration
LastOfShort == short_data[Len(short_data)].t      \* short_data.index[-1]

\* One iteration of "for beg_window in short_data.index" that stores a mean.
ScanStep ==
  /\ pc = "scan"
  /\ i <= Len(short_data)
  /\ ~Overflows(end_window, LastOfShort)
  /\ averages' = DictSet(averages, beg_window + HalfDuration,
                         Mean(Slice(short_data, beg_window, end_window)))
  /\ i' = i + 1
  /\ UNCHANGED <<vmcvars, serievars, accvars>>
  /\ UNCHANGED <<fn, data, pc, chunked, beg_day, end_day, Ls, short_data, L,
                 segs, result>>

\* The window exceeds the record: break.
ScanBreak ==
  /\ pc = "scan"
  /\ i <= Len(short_data)
  /\ Overflows(end_window, LastOfShort)
  /\ pc' = "pick"
  /\ UNCHANGED <<vmcvars, serievars, accvars>>
  /\ UNCHANGED <<fn, data, chunked, beg_day, end_day, Ls, short_data, i,
                 averages, L, segs, result>>

\* The index is exhausted (only an empty slice gets here).
ScanEnd ==
  /\ pc = "scan"
  /\ i > Len(short_data)
  /\ pc' = "pick"
  /\ UNCHANGED <<vmcvars, serievars, accvars>>
  /\ UNCHANGED <<fn, data, chunked, beg_day, end_day, Ls, short_data, i,
                 averages, L, segs, result>>

\* min() / max() of an empty dict raises ValueError, which nothing catches.
PickRaise ==
  /\ pc = "pick"
  /\ averages = <<>>
  /\ pc' = "raised"
  /\ UNCHANGED <<vmcvars, serievars, accvars>>
  /\ UNCHANGED <<fn, data, chunked, beg_day, end_day, Ls, short_data, i,
                 averages, L, segs, result>>

\* The short-period function returns to the day loop: append, next day.
PickDay ==
  /\ pc = "pick"
  /\ averages # <<>>
  /\ chunked
  /\ L' = ExtremumKey(averages)
  /\ Ls' = Append(Ls, ExtremumKey(averages))
  /\ beg_day' = end_day
  /\ pc' = "day"
  /\ UNCHANGED <<vmcvars, serievars, accvars>>
  /\ UNCHANGED <<fn, data, chunked, end_day, short_data, i, averages, segs,
                 result>>

\* The short-period function returns the result of the whole record.
PickWhole ==
  /\ pc = "pick"
  /\ averages # <<>>
  /\ ~chunked
  /\ L' = ExtremumKey(averages)
  /\ result' = Timestamp(ExtremumKey(averages), 1)
  /\ pc' = "done"
  /\ UNCHANGED <<vmcvars, serievars, accvars>>
  /\ UNCHANGED <<fn, data, chunked, beg_day, end_day, Ls, short_data, i,
                 averages, segs>>

Next ==
  \/ TooShort
  \/ BeginDays
  \/ CallWhole
  \/ DayIter
  \/ DayExit
  \/ ScanStep
  \/ ScanBreak
  \/ ScanEnd
  \/ PickRaise
  \/ PickDay
  \/ PickWhole

Spec == Init /\ [][Next]_vars

\* ============================================ one-minute bucketing (VMC)
\* get_acc_data queries the samples with lower_limit < timestamp < upper_limit,
\* so every sample of a chunk lies after the start anchor.
Anchors == {0, 1}

ChunkSeries(a) ==
  UNION { { MkSeries(S, val) : val \in [S -> Values] } :
          S \in SUBSET ((a + 1)..MaxVTime) }

\* r.index[-1]; an empty response is replaced by one row indexed by lower_limit.
LastIndex == IF r = <<>> THEN anchor ELSE r[Len(r)].t

\* (minute + timedelta(minutes=1)).replace(second=0, microsecond=0)
NextMinuteDelta(t) == t + Minute
NextMinuteMark(t) == ((t + Minute) \div Minute) * Minute

\* next_minute of the iteration that starts at m.
NextMinute(m) ==
  IF NextMinuteMark(m) > LastIndex THEN LastIndex ELSE NextMinuteMark(m)

\* r[minute : next_minute], a label slice: both ends included.
BucketSliceHalfOpen(s, lo, hi) == SelectSeq(s, LAMBDA x : lo <= x.t /\ x.t < hi)
BucketSlice(s, lo, hi) == SelectSeq(s, LAMBDA x : lo <= x.t /\ x.t <= hi)

RECURSIVE GCD(_, _)
GCD(a, b) == IF b = 0 THEN a ELSE GCD(b, a % b)

\* The fraction n / d in lowest terms (d > 0, n >= 0).
Fraction(n, d) == [num |-> n \div GCD(n, d), den |-> d \div GCD(n, d)]

Abs(x) == IF x < 0 THEN -x ELSE x

RECURSIVE SumTimes(_)
SumTimes(s) == IF s = <<>> THEN 0 ELSE s[1].t + SumTimes(Tail(s))

\* sum of |v - mean| over the bucket, times the number of samples.
RECURSIVE SumAbsDev(_, _, _)
SumAbsDev(s, total, n) ==
  IF s = <<>> THEN 0 ELSE Abs(n * s[1].v - total) + SumAbsDev(Tail(s), total, n)

None == [tag |-> "None", num |-> 0, den |-> 1]

\* (r - r.mean()).abs().mean()
VMC_valueNotCentred(s) ==
  LET f == Fraction(SumValues(s), Len(s))
  IN  [tag |-> "float", num |-> f.num, den |-> f.den]

VMC_value(s) ==
  LET f == Fraction(SumAbsDev(s, SumValues(s), Len(s)), Len(s) * Len(s))
  IN  [tag |-> "float", num |-> f.num, den |-> f.den]

\* np.mean(r_index['timestamp'])
avg_timestamp(s) == Fraction(SumTimes(s), Len(s))

\* get_VMC(r, first_timestamp): the one-entry dict, as the pair key, value.
get_VMC_NominalKey(s, first_timestamp) ==
  IF Len(s) = 0
  THEN [key |-> Fraction(first_timestamp, 1), val |-> None]
  ELSE [key |-> Fraction(first_timestamp, 1), val |-> VMC_value(s)]

get_VMC(s, first_timestamp) ==
  IF Len(s) = 0
  THEN [key |-> Fraction(first_timestamp, 1), val |-> None]
  ELSE [key |-> avg_timestamp(s), val |-> VMC_value(s)]

\* vmc_serie.update(vmc) on a dict that keeps insertion order.
DictUpdate(d, e) ==
  IF \E k \in DOMAIN d : d[k].key = e.key
  THEN [k \in DOMAIN d |-> IF d[k].key = e.key THEN e ELSE d[k]]
  ELSE Append(d, e)

InitVMC ==
  /\ fn = "L5"
  /\ data = <<>>
  /\ pc = "idle"
  /\ chunked = FALSE
  /\ beg_day = NoValue
  /\ end_day = NoValue
  /\ Ls = <<>>
  /\ short_data = <<>>
  /\ i = 1
  /\ averages = <<>>
  /\ L = NoValue
  /\ segs = <<>>
  /\ result = NoResult
  /\ anchor \in Anchors
  /\ r \in ChunkSeries(anchor)
  /\ minute = anchor
  /\ vmc_serie = <<>>
  /\ buckets = <<>>
  /\ vmcs = <<>>
  /\ vpc = "loop"
  /\ SerieIdle
  /\ AccIdle

\* One iteration of "while minute < r.index[-1]".
BucketStep ==
  /\ vpc = "loop"
  /\ minute < LastIndex
  /\ vmc_serie' = DictUpdate(vmc_serie,
                     get_VMC(BucketSlice(r, minute, NextMinute(minute)), minute))
  /\ buckets' = Append(buckets, [lo |-> minute, hi |-> NextMinute(minute),
                                 samples |-> BucketSlice(r, minute, NextMinute(minute))])
  /\ vmcs' = Append(vmcs, get_VMC(BucketSlice(r, minute, NextMinute(minute)), minute))
  /\ minute' = NextMinute(minute)
  /\ UNCHANGED <<r, anchor, vpc>>
  /\ UNCHANGED <<l5vars, serievars, accvars>>

\* The loop is over: the dict becomes the returned Series.
BucketExit ==
  /\ vpc = "loop"
  /\ ~(minute < LastIndex)
  /\ vpc' = "done"
  /\ UNCHANGED <<r, anchor, minute, vmc_serie, buckets, vmcs>>
  /\ UNCHANGED <<l5vars, serievars, accvars>>

NextVMC ==
  \/ BucketStep
  \/ BucketExit

SpecVMC == InitVMC /\ [][NextVMC]_vars

\* ======================================================== get_VMC_serie
\* Timestamps in 15 s ticks since the midnight that starts day 0; a date is a
\* day number, and an entry of listSaturdays / listSundays used as day_beg is
\* the midnight that starts that date.
DateOf(t) == t \div VDay                   \* current.date()
DayStart(date) == date * VDay

SeqRange(q) == { q[k] : k \in DOMAIN q }

\* get_days_by_weekday_weekend: "weekends = date_saturday + date_sunday"
weekends(a) == a.listSaturdays \o a.listSundays

\* "while current.date() < date_end.date()": the days that are no weekend day.
RECURSIVE WeekdaysFrom(_, _)
WeekdaysFrom(a, current) ==
  IF DateOf(current) < DateOf(a.timestampEnd)
  THEN (IF DateOf(current) \notin SeqRange(weekends(a)) THEN <<current>> ELSE <<>>)
       \o WeekdaysFrom(a, current + VDay)
  ELSE <<>>

weekdays(a) == WeekdaysFrom(a, a.timestampStart)

\* "if on_weekday: days.extend(weekdays)" / "if on_weekend: days.extend(weekends)"
SelectedDays(a) ==
  (IF a.on_weekday THEN weekdays(a) ELSE <<>>)
  \o (IF a.on_weekend
      THEN [k \in DOMAIN weekends(a) |-> DayStart(weekends(a)[k])]
      ELSE <<>>)

\* get_acc_data(part_id, lower_limit, upper_limit): the query keeps the samples
\* with lower_limit < timestamp < upper_limit.
get_acc_data(lower_limit, upper_limit) ==
  SelectSeq(db, LAMBDA x : lower_limit < x.t /\ x.t < upper_limit)

\* (day_beg + timedelta(days=1)).replace(hour=0, minute=0, second=0, microsecond=0)
NextDayStart(t) == ((t + VDay) \div VDay) * VDay

\* A recording that starts on a Friday (day 0) at 23:00 and ends on the Monday
\* after its first or its second weekend.
StartTime == 23 * Hour
Participants ==
  { [timestampStart |-> StartTime, timestampEnd |-> 3 * VDay + 2 * Minute,
     listSaturdays |-> <<1>>, listSundays |-> <<2>>],
    [timestampStart |-> StartTime, timestampEnd |-> 10 * VDay + 2 * Minute,
     listSaturdays |-> <<1, 8>>, listSundays |-> <<2, 9>>] }

SampleTimes ==
  { StartTime + 1, VDay + 1, 2 * VDay + 2, 8 * VDay + 1, 9 * VDay + Hour + 1 }

Databases ==
  { MkSeries(S, [t \in S |-> IF t % 2 = 1 THEN 1 ELSE 10]) : S \in SUBSET SampleTimes }

L5Idle ==
  /\ fn = "L5"
  /\ data = <<>>
  /\ pc = "idle"
  /\ chunked = FALSE
  /\ beg_day = NoValue
  /\ end_day = NoValue
  /\ Ls = <<>>
  /\ short_data = <<>>
  /\ i = 1
  /\ averages = <<>>
  /\ L = NoValue
  /\ segs = <<>>
  /\ result = NoResult

InitSerie ==
  /\ L5Idle
  /\ \E p \in Participants, wd, we \in BOOLEAN :
        args = [on_weekday |-> wd, on_weekend |-> we,
                timestampStart |-> p.timestampStart, timestampEnd |-> p.timestampEnd,
                listSaturdays |-> p.listSaturdays, listSundays |-> p.listSundays]
  /\ db \in Databases
  /\ days = <<>>
  /\ day_i = 1
  /\ day_end = NoValue
  /\ hour_end = NoValue
  /\ r = <<>>
  /\ anchor = 0
  /\ minute = 0
  /\ vmc_serie = <<>>
  /\ buckets = <<>>
  /\ vmcs = <<>>
  /\ vpc = "begin"
  /\ AccIdle

\* No day is selected: print the error and return None.
StartSerieNoDays ==
  /\ vpc = "begin"
  /\ SelectedDays(args) = <<>>
  /\ vpc' = "returned_None"
  /\ UNCHANGED <<r, anchor, minute, vmc_serie, buckets, vmcs>>
  /\ UNCHANGED <<l5vars, serievars, accvars>>

\* The list days is built; vmc_serie is the empty dict.
StartSerie ==
  /\ vpc = "begin"
  /\ SelectedDays(args) # <<>>
  /\ days' = SelectedDays(args)
  /\ day_i' = 1
  /\ vmc_serie' = <<>>
  /\ vpc' = "days"
  /\ UNCHANGED <<r, anchor, minute, buckets, vmcs>>
  /\ UNCHANGED <<l5vars, accvars, args, db, day_end, hour_end>>

\* day_end of the day that starts at day_beg.
DayEnd(day_beg) ==
  IF NextDayStart(day_beg) > args.timestampEnd THEN args.timestampEnd
  ELSE NextDayStart(day_beg)

\* "for day_beg in days": the next day, up to "hour_beg = day_beg".
DayBegin ==
  /\ vpc = "days"
  /\ day_i <= Len(days)
  /\ day_end' = DayEnd(days[day_i])
  /\ anchor' = days[day_i]
  /\ vpc' = "hours"
  /\ UNCHANGED <<r, minute, vmc_serie, buckets, vmcs>>
  /\ UNCHANGED <<l5vars, accvars, args, db, days, day_i, hour_end>>

\* hour_end of the hour that starts at hour_beg.
HourEnd(hour_beg) ==
  IF hour_beg + Hour > day_end THEN day_end ELSE hour_beg + Hour

\* One iteration of "while hour_beg < day_end" up to "minute = hour_beg".
HourBegin ==
  /\ vpc = "hours"
  /\ anchor < day_end
  /\ hour_end' = HourEnd(anchor)
  /\ r' = get_acc_data(anchor, HourEnd(anchor))
  /\ minute' = anchor
  /\ vpc' = "minutes"
  /\ UNCHANGED <<anchor, vmc_serie, buckets, vmcs>>
  /\ UNCHANGED <<l5vars, accvars, args, db, days, day_i, day_end>>

\* One iteration of "while minute < r_1hour.index[-1]".
SerieBucketStep ==
  /\ vpc = "minutes"
  /\ minute < LastIndex
  /\ vmc_serie' = DictUpdate(vmc_serie,
                     get_VMC(BucketSlice(r, minute, NextMinute(minute)), minute))
  /\ buckets' = Append(buckets, [lo |-> minute, hi |-> NextMinute(minute),
                                 samples |-> BucketSlice(r, minute, NextMinute(minute))])
  /\ vmcs' = Append(vmcs, get_VMC(BucketSlice(r, minute, NextMinute(minute)), minute))
  /\ minute' = NextMinute(minute)
  /\ UNCHANGED <<r, anchor, vpc>>
  /\ UNCHANGED <<l5vars, serievars, accvars>>

\* The minute loop is over: "hour_beg = hour_end".
SerieMinuteExit ==
  /\ vpc = "minutes"
  /\ ~(minute < LastIndex)
  /\ anchor' = hour_end
  /\ vpc' = "hours"
  /\ UNCHANGED <<r, minute, vmc_serie, buckets, vmcs>>
  /\ UNCHANGED <<l5vars, serievars, accvars>>

\* The hour loop is over: next day.
HoursExit ==
  /\ vpc = "hours"
  /\ ~(anchor < day_end)
  /\ day_i' = day_i + 1
  /\ vpc' = "days"
  /\ UNCHANGED <<r, anchor, minute, vmc_serie, buckets, vmcs>>
  /\ UNCHANGED <<l5vars, accvars, args, db, days, day_end, hour_end>>

\* The day loop is over: the dict becomes the returned Series.
DaysExit ==
  /\ vpc = "days"
  /\ day_i > Len(days)
  /\ vpc' = "done"
  /\ UNCHANGED <<r, anchor, minute, vmc_serie, buckets, vmcs>>
  /\ UNCHANGED <<l5vars, serievars, accvars>>

NextSerie ==
  \/ StartSerieNoDays
  \/ StartSerie
  \/ DayBegin
  \/ HourBegin
  \/ SerieBucketStep
  \/ SerieMinuteExit
  \/ HoursExit
  \/ DaysExit

SpecSerie == InitSerie /\ [][NextSerie]_vars

\* ================================================= get_acc_data and get_r
\* The three channel responses are functions from the timestamps returned to
\* the value; a frame cell and a value of r are records: nan says NaN, v is the
\* number of a cell, sq is the number whose square root the value of r is.
MaxAccTime == 2
AccTimes == 1..MaxAccTime
Columns == {"lateral", "longitudinal", "vertical"}
ChannelValues(c) ==
  IF c = "lateral" THEN {0, 3} ELSE IF c = "longitudinal" THEN {0, 4} ELSE {0, 12}
Channels(c) == UNION { [S -> ChannelValues(c)] : S \in SUBSET AccTimes }

lower_limit == 0

NaN == [nan |-> TRUE, v |-> 0]
Cell(x) == [nan |-> FALSE, v |-> x]

\* pd.DataFrame(columns=[...], index=[lower_limit]): one row of NaN.
empty_df ==
  [columns |-> Columns,
   rows |-> << [t |-> lower_limit, lateral |-> NaN, longitudinal |-> NaN,
                vertical |-> NaN] >>]

\* response2dataframe: an empty response gives a frame with no column.
ColumnsOf(resp) == { c \in Columns : DOMAIN resp[c] # {} }

CellOf(resp, c, t) == IF t \in DOMAIN resp[c] THEN Cell(resp[c][t]) ELSE NaN

\* pd.concat([df_lat, df_lon, df_ver], axis=1): the outer join on the index.
concat(resp) ==
  LET idx == SortedTimes(UNION { DOMAIN resp[c] : c \in Columns })
  IN  [columns |-> ColumnsOf(resp),
       rows |-> [k \in DOMAIN idx |->
                   [t |-> idx[k],
                    lateral |-> CellOf(resp, "lateral", idx[k]),
                    longitudinal |-> CellOf(resp, "longitudinal", idx[k]),
                    vertical |-> CellOf(resp, "vertical", idx[k])]]]

\* (lat**2 + lon**2 + ver**2) ** 0.5 of one row; NaN in, NaN out.
Magnitude(row) ==
  IF row.lateral.nan \/ row.longitudinal.nan \/ row.vertical.nan
  THEN [nan |-> TRUE, sq |-> 0]
  ELSE [nan |-> FALSE,
        sq |-> row.lateral.v * row.lateral.v
               + row.longitudinal.v * row.longitudinal.v
               + row.vertical.v * row.vertical.v]

get_r(acc) == [k \in DOMAIN acc.rows |-> [t |-> acc.rows[k].t, v |-> Magnitude(acc.rows[k])]]

VMCIdle ==
  /\ r = <<>>
  /\ anchor = 0
  /\ minute = 0
  /\ vmc_serie = <<>>
  /\ buckets = <<>>
  /\ vmcs = <<>>
  /\ vpc = "idle"

InitAcc ==
  /\ L5Idle
  /\ VMCIdle
  /\ SerieIdle
  /\ \/ response = NoResponse
     \/ \E lat \in Channels("lateral"), lon \in Channels("longitudinal"),
           ver \in Channels("vertical") :
           response = [ok |-> TRUE, lateral |-> lat, longitudinal |-> lon,
                       vertical |-> ver]
  /\ df_acc = NoFrame
  /\ r_acc = <<>>
  /\ apc = "query"

\* "if response == False": the query raised, return the frame of NaN.
QueryFailed ==
  /\ apc = "query"
  /\ ~response.ok
  /\ df_acc' = empty_df
  /\ apc' = "frame"
  /\ UNCHANGED <<response, r_acc>>
  /\ UNCHANGED <<l5vars, vmcvars, serievars>>

\* "if len(df_acc.columns) == 0": the three responses are empty.
EmptyResponse ==
  /\ apc = "query"
  /\ response.ok
  /\ concat(response).columns = {}
  /\ df_acc' = empty_df
  /\ apc' = "frame"
  /\ UNCHANGED <<response, r_acc>>
  /\ UNCHANGED <<l5vars, vmcvars, serievars>>

\* get_acc_data returns the concatenated frame.
ReturnFrame ==
  /\ apc = "query"
  /\ response.ok
  /\ concat(response).columns # {}
  /\ df_acc' = concat(response)
  /\ apc' = "frame"
  /\ UNCHANGED <<response, r_acc>>
  /\ UNCHANGED <<l5vars, vmcvars, serievars>>

\* get_r on a frame that has the three columns.
ReturnR ==
  /\ apc = "frame"
  /\ df_acc.columns = Columns
  /\ r_acc' = get_r(df_acc)
  /\ apc' = "returned"
  /\ UNCHANGED <<response, df_acc>>
  /\ UNCHANGED <<l5vars, vmcvars, serievars>>

\* get_r on a frame without one of the columns: acc['...'] raises KeyError.
RaiseKeyError ==
  /\ apc = "frame"
  /\ df_acc.columns # Columns
  /\ apc' = "KeyError"
  /\ UNCHANGED <<response, df_acc, r_acc>>
  /\ UNCHANGED <<l5vars, vmcvars, serievars>>

NextAcc ==
  \/ QueryFailed
  \/ EmptyResponse
  \/ ReturnFrame
  \/ ReturnR
  \/ RaiseKeyError

SpecAcc == InitAcc /\ [][NextAcc]_vars

\* ================================================================== claims
Span == end_timestamp - beg_timestamp
Returned == pc = "done" /\ result.tag = "ts"

\* first + lo <= result <= last - lo, the result being the fraction num / den.
ResultWithin(margin) ==
  /\ (beg_timestamp + margin) * result.den <= result.num
  /\ result.num <= (end_timestamp - margin) * result.den

\* C1: every series whose span is at least 5 hours makes get_L5 return a
\* timestamp t with first + 2.5h <= t <= last - 2.5h, series longer than one
\* day with a short first or last day-segment included.
C1_L5WithinRange ==
  (fn = "L5" /\ Span >= 10) =>
     /\ pc # "raised"
     /\ (pc = "done" => (result.tag = "ts" /\ ResultWithin(5)))

\* C2: get_L5 returns the sentinel False, and never a timestamp, exactly for
\* the series whose span is strictly less than 5 hours; a span of exactly
\* 5 hours is not rejected.
C2_TooShortSentinel ==
  (fn = "L5" /\ pc # "start") =>
     /\ (Span < 10 => (pc = "done" /\ result = FalseResult))
     /\ (Span >= 10 => result # FalseResult)

C2_Witness ==
  fn = "L5" /\ Span < 10 /\ Span > 0 /\ pc = "done" /\ result = FalseResult

\* C3: every series whose span is at least 10 hours makes get_M10 return a
\* timestamp t with first + 5h <= t <= last - 5h, series longer than one day
\* with a day-segment shorter than 10 hours included.
C3_M10WithinRange ==
  (fn = "M10" /\ Span >= 20) =>
     /\ pc # "raised"
     /\ (pc = "done" => (result.tag = "ts" /\ ResultWithin(10)))

\* C4 (as stated): on the 6 hourly samples [10,10,10,1,1,1] from 00:00 get_L5
\* returns 03:30, the midpoint of the window starting at 01:00.
C4_ScenarioReturns0330 ==
  (fn = "L5" /\ data = ScenarioSeries /\ pc = "done") => result = Timestamp(7, 1)

\* C4 (amended): on that series the only window get_L5 evaluates is the one
\* starting at 00:00 (the one starting at 01:00 would end after the last
\* sample), and get_L5 returns its midpoint 02:30.
C4_ScenarioReturns0230 ==
  (fn = "L5" /\ data = ScenarioSeries) =>
     /\ pc # "raised"
     /\ (pc \in {"pick", "done"} => (Len(averages) = 1 /\ averages[1].key = 5))
     /\ (pc = "done" => result = Timestamp(5, 1))

C4_Witness ==
  fn = "L5" /\ data = ScenarioSeries /\ pc = "done" /\ result = Timestamp(5, 1)

\* The anchors the scan contract names: the sample timestamps t of the
\* segment with t + duration <= last timestamp of the segment.
ValidAnchors(s, dur) ==
  { s[k].t : k \in { j \in DOMAIN s : s[j].t + dur <= s[Len(s)].t } }

WindowLength == IF fn = "L5" THEN 10 ELSE 20
MidOffset == IF fn = "L5" THEN 5 ELSE 10

\* C5: when the scan of a segment is over it holds exactly one window average
\* for each sample timestamp t with t + duration <= last timestamp, in scan
\* order, and none for another timestamp; the scan has stopped at the first
\* anchor whose window end exceeds the last timestamp.
C5_ScanAnchors ==
  pc = "pick" =>
     /\ { averages[k].key - MidOffset : k \in DOMAIN averages }
          = ValidAnchors(short_data, WindowLength)
     /\ Len(averages) = Cardinality(ValidAnchors(short_data, WindowLength))
     /\ \A k \in DOMAIN averages : averages[k].key = short_data[k].t + MidOffset
     /\ i = Len(averages) + 1
     /\ (i <= Len(short_data) =>
            short_data[i].t + WindowLength > short_data[Len(short_data)].t)

C5_Witness ==
  /\ pc = "pick"
  /\ Len(averages) >= 2
  /\ Len(short_data) >= Len(averages) + 2

\* C6: the mean stored for an anchor t equals the mean of the values whose
\* timestamp lies in [t, t+duration): a sample at t+duration is left out.
C6_HalfOpenWindow ==
  pc = "pick" =>
     \A k \in DOMAIN averages :
        LET t == averages[k].key - MidOffset
            w == SelectSeq(short_data, LAMBDA x : t <= x.t /\ x.t < t + WindowLength)
        IN  averages[k].mean.sum * Len(w) = SumValues(w) * averages[k].mean.cnt

Worse(a, b) ==
  IF fn = "L5" THEN a.sum * b.cnt > b.sum * a.cnt ELSE a.sum * b.cnt < b.sum * a.cnt

\* C7: the short-period function returns anchor + 2.5h (get_L5) or anchor + 5h
\* (get_M10) of a window whose mean is minimal (maximal) among the valid
\* windows, and of the earliest such window when several share the extreme.
C7_FirstExtremum ==
  L # NoValue =>
     \E k \in DOMAIN averages :
        /\ L = averages[k].key
        /\ L - MidOffset \in ValidAnchors(short_data, WindowLength)
        /\ \A j \in DOMAIN averages : ~Worse(averages[k].mean, averages[j].mean)
        /\ \A j \in 1..(k - 1) : Worse(averages[j].mean, averages[k].mean)

C7_Witness ==
  /\ L # NoValue
  /\ \E k, j \in DOMAIN averages :
        /\ k < j
        /\ L = averages[k].key
        /\ averages[k].mean.sum * averages[j].mean.cnt
             = averages[j].mean.sum * averages[k].mean.cnt
        /\ \E m \in DOMAIN averages : Worse(averages[m].mean, averages[k].mean)

\* The day-segments of the chunker, as intervals: cut at every local midnight,
\* the first starting at the first timestamp, the last ending at the last.
RefDays == (beg_timestamp \div 48)..((end_timestamp - 1) \div 48)
RefLo(d) == IF d * 48 < beg_timestamp THEN beg_timestamp ELSE d * 48
RefHi(d) == IF (d + 1) * 48 > end_timestamp THEN end_timestamp ELSE (d + 1) * 48
RefSegment(d) == SelectSeq(data, LAMBDA x : RefLo(d) <= x.t /\ x.t <= RefHi(d))

\* Mean of the window anchored at t, boundary samples counted as the code
\* counts them.
RefMean(s, t) ==
  LET w == SelectSeq(s, LAMBDA x : t <= x.t /\ x.t <= t + WindowLength)
  IN  [sum |-> SumValues(w), cnt |-> Len(w)]

\* Midpoint of the earliest window of s with the extreme mean.
RefExtremum(s) ==
  LET A == ValidAnchors(s, WindowLength)
      b == CHOOSE t \in A :
             /\ \A u \in A : ~Worse(RefMean(s, t), RefMean(s, u))
             /\ \A u \in A : u < t => Worse(RefMean(s, u), RefMean(s, t))
  IN  b + MidOffset

RECURSIVE RefSum(_)
RefSum(D) ==
  IF D = {} THEN 0
  ELSE LET d == CHOOSE x \in D : TRUE
       IN  RefExtremum(RefSegment(d)) + RefSum(D \ {d})

\* C8: get_L5 / get_M10 chunk by day exactly when first + 24h < last; then the
\* result is the mean of the per-day extremum midpoints over the segments cut
\* at each local midnight; otherwise it is the short-period extremum of the
\* whole series.
C8_ChunkingDispatch ==
  /\ (pc \notin {"start", "done"} \/ Returned) =>
        (chunked <=> beg_timestamp + 48 < end_timestamp)
  /\ (pc = "done" /\ chunked) =>
        /\ \A k \in DOMAIN segs :
              /\ segs[k].lo = RefLo((beg_timestamp \div 48) + k - 1)
              /\ segs[k].hi = RefHi((beg_timestamp \div 48) + k - 1)
        /\ Len(segs) = Cardinality(RefDays)
        /\ result = [tag |-> "ts", num |-> RefSum(RefDays), den |-> Cardinality(RefDays)]
  /\ (Returned /\ ~chunked) =>
        /\ segs = <<>>
        /\ result = [tag |-> "ts", num |-> RefExtremum(data), den |-> 1]

C8_Witness ==
  /\ Returned
  /\ chunked
  /\ Len(Ls) >= 2
  /\ \E k \in DOMAIN Ls : Ls[k] * result.den # result.num

\* C9: the day-segments handed to the per-day function do not overlap and
\* cover the series once: every sample belongs to exactly one of them.
C9_DaySegmentsPartition ==
  (pc = "done" /\ chunked) =>
     \A k \in DOMAIN data :
        Cardinality({ s \in DOMAIN segs :
                        \E m \in DOMAIN segs[s].samples :
                           segs[s].samples[m].t = data[k].t }) = 1

\* C10: the one-minute buckets of a chunk do not overlap and cover it once:
\* every sample of the chunk (all lie after the start anchor), a sample on a
\* clock minute boundary included, contributes to exactly one bucket.
C10_MinuteBucketsPartition ==
  vpc = "done" =>
     \A k \in DOMAIN r :
        Cardinality({ b \in DOMAIN buckets :
                        \E m \in DOMAIN buckets[b].samples :
                           buckets[b].samples[m].t = r[k].t }) = 1

\* The clock minute marks around a time t.
IsMark(t) == t % Minute = 0
MarkAtOrAfter(t) == CHOOSE m \in t..(t + Minute) : IsMark(m) /\ \A n \in t..(m - 1) : ~IsMark(n)
MarkAfter(t) == MarkAtOrAfter(t + 1)
LastSampleTime == r[Len(r)].t
Earlier(a, b) == IF a < b THEN a ELSE b

\* C11 (as stated): the first boundary is the next :00 mark at or after the
\* start anchor, clipped to the chunk's last sample timestamp.
C11_FirstBoundaryAtOrAfter ==
  buckets # <<>> => buckets[1].hi = Earlier(MarkAtOrAfter(anchor), LastSampleTime)

\* C11 (amended): the first bucket starts at the start anchor and ends at the
\* first :00 mark strictly after it (anchor + 60 s when the anchor is itself
\* on a mark), every later bucket starts where the previous one ended and
\* ends at the following :00 mark, and the final bucket ends at the chunk's
\* last sample timestamp instead.
C11_ClockAlignedBoundaries ==
  /\ \A k \in DOMAIN buckets :
        /\ buckets[k].lo = IF k = 1 THEN anchor ELSE buckets[k - 1].hi
        /\ buckets[k].hi = Earlier(MarkAfter(buckets[k].lo), LastSampleTime)
        /\ k > 1 => IsMark(buckets[k].lo)
  /\ (vpc = "done" /\ r # <<>>) =>
        /\ buckets # <<>>
        /\ buckets[Len(buckets)].hi = LastSampleTime

C11_Witness ==
  /\ vpc = "done"
  /\ ~IsMark(anchor)
  /\ Len(buckets) >= 3
  /\ ~IsMark(buckets[Len(buckets)].hi)

RECURSIVE RefTimes(_, _)
RefTimes(s, k) == IF k = 0 THEN 0 ELSE s[k].t + RefTimes(s, k - 1)

RECURSIVE RefValues(_, _)
RefValues(s, k) == IF k = 0 THEN 0 ELSE s[k].v + RefValues(s, k - 1)

\* Sum over the first k samples of |v - mean|, times Len(s).
RECURSIVE RefDeviation(_, _)
RefDeviation(s, k) ==
  IF k = 0 THEN 0
  ELSE LET d == Len(s) * s[k].v - RefValues(s, Len(s))
       IN  (IF d < 0 THEN 0 - d ELSE d) + RefDeviation(s, k - 1)

ConstantValued == \A k, j \in DOMAIN r : r[k].v = r[j].v
IsZero(x) == x.tag = "float" /\ x.num = 0

\* C13 (as stated): on a series whose values are all equal every value of the
\* VMC result is 0, none is the null sentinel.
C13_ConstantAllZero ==
  (ConstantValued /\ vpc = "done") =>
     \A k \in DOMAIN vmc_serie : IsZero(vmc_serie[k].val)

\* C13 (amended): on a series whose values are all equal every bucket that
\* holds at least one sample has the value 0, and every value of the result
\* is 0 or, for a bucket without samples, the null sentinel.
C13_ConstantZeroOrNone ==
  ConstantValued =>
     /\ \A k \in DOMAIN buckets :
           IF buckets[k].samples = <<>>
           THEN vmcs[k].val.tag = "None"
           ELSE IsZero(vmcs[k].val)
     /\ \A k \in DOMAIN vmc_serie :
           \/ IsZero(vmc_serie[k].val)
           \/ /\ vmc_serie[k].val.tag = "None"
              /\ \E b \in DOMAIN buckets :
                    /\ buckets[b].samples = <<>>
                    /\ vmc_serie[k].key.num = buckets[b].lo * vmc_serie[k].key.den

C13_Witness ==
  /\ ConstantValued
  /\ vpc = "done"
  /\ \E k \in DOMAIN vmc_serie : vmc_serie[k].val.tag = "None"
  /\ \E k \in DOMAIN buckets : Len(buckets[k].samples) >= 2 /\ IsZero(vmcs[k].val)
  /\ Len(vmc_serie) >= 3

\* The 90-second gap scenario: samples g and g+1 of the chunk are 90 s apart,
\* every other pair of neighbours is less than a minute apart and the first
\* sample is not later than the first minute mark after the anchor.
Gap90 == Minute + Minute \div 2
GapAt(g) ==
  /\ g \in 1..(Len(r) - 1)
  /\ r[g + 1].t - r[g].t = Gap90
  /\ \A k \in 1..(Len(r) - 1) : k # g => r[k + 1].t - r[k].t < Minute
  /\ r[1].t <= MarkAfter(anchor)

NullBuckets == { k \in DOMAIN buckets : vmcs[k].val.tag = "None" }

\* A whole clock minute, both marks included, lies inside the gap after g.
MinuteInsideGap(g) ==
  \E m \in r[g].t..r[g + 1].t : IsMark(m) /\ r[g].t < m /\ m + Minute < r[g + 1].t

KeyLess(a, b) == a.num * b.den < b.num * a.den

\* C15: the result of get_VMC_serie is one ordered sequence: its entries
\* appear in increasing order of their timestamp key.
C15_ResultOrdered ==
  vpc = "done" =>
     \A k \in 1..(Len(vmc_serie) - 1) : KeyLess(vmc_serie[k].key, vmc_serie[k + 1].key)

\* What get_L5 returns for a record of at most one day.
RefL5OfSegment(s) ==
  IF s[Len(s)].t - s[1].t < 10 THEN FalseResult
  ELSE [tag |-> "ts", num |-> RefExtremum(s), den |-> 1]

SameResult(a, b) == a.tag = b.tag /\ a.num * b.den = b.num * a.den

\* C16: when a three-day record is one day-segment repeated three times,
\* get_L5 of the record ends with the result of get_L5 of one of its three
\* segments.
C16_ThreeIdenticalDays ==
  \A seg \in DaySegments :
     (fn = "L5" /\ data = Triple(seg) /\ pc \in {"done", "raised"}) =>
        /\ pc = "done"
        /\ \E k \in 0..2 : SameResult(result, RefL5OfSegment(Shifted(seg, k)))

\* The three channels do not have the same timestamps.
Misaligned ==
  /\ response.ok
  /\ \E c1, c2 \in Columns : DOMAIN response[c1] # DOMAIN response[c2]

\* C17: get_r on the frame of get_acc_data rejects channels whose timestamps
\* do not match: it returns no series then, so never one with a missing value
\* at a timestamp that a channel lacks.
C17_MisalignedRejected ==
  Misaligned => apc # "returned"

\* C18: on every non-empty series with strictly increasing timestamps a call
\* of get_L5 or get_M10 ends by returning a timestamp or the too-short
\* sentinel, never by raising.
C18_ReturnsNeverRaises ==
  (data # <<>> /\ pc \in {"done", "raised"}) =>
     (pc = "done" /\ result.tag \in {"ts", "False"})

\* C19: every window the scan has evaluated holds the sample at its own
\* anchor: its mean is taken over that sample and the later samples up to the
\* end of the window, so over one sample at least, whatever the gaps.
C19_WindowHoldsAnchor ==
  \A k \in DOMAIN averages :
     LET a == averages[k].key - MidOffset
         later == { j \in DOMAIN short_data :
                      a < short_data[j].t /\ short_data[j].t <= a + WindowLength }
     IN  /\ \E j \in DOMAIN short_data : short_data[j].t = a
         /\ averages[k].mean.cnt = 1 + Cardinality(later)
         /\ averages[k].mean.cnt >= 1

\* A window over a gap: the anchor is its only sample.
C19_Witness ==
  /\ pc = "done"
  /\ \E k \in DOMAIN averages : averages[k].mean.cnt = 1
  /\ \E k \in DOMAIN averages : averages[k].mean.cnt > 1

\* Every iteration of the day loop moves beg_day forward, over a segment of
\* positive length.
DayCursorAdvances ==
  /\ [](\A k \in DOMAIN segs : segs[k].lo < segs[k].hi)
  /\ [][(pc = "pick" /\ pc' = "day") => beg_day' > beg_day]_vars

\* Every iteration of a minute loop moves minute forward, over a bucket of
\* positive length.
MinuteCursorAdvances ==
  /\ [](\A k \in DOMAIN buckets : buckets[k].lo < buckets[k].hi)
  /\ [][(vpc \in {"loop", "minutes"} /\ vpc' = vpc) => minute' > minute]_vars

\* When a minute loop is left, minute is the last timestamp of the chunk.
MinuteCursorReachesEnd ==
  [][(vpc \in {"loop", "minutes"} /\ vpc' # vpc) => minute = LastIndex]_vars

\* When a call that entered the day loop is over, beg_day is end_timestamp.
DayCursorReachesEnd ==
  []((chunked /\ pc \in {"done", "raised"}) => beg_day = end_timestamp)

\* C20: the day loop and the minute loops end: each iteration moves the
\* cursor strictly forward over a day-segment or bucket of positive length,
\* beg_day reaches end_timestamp and minute reaches the last timestamp of
\* the chunk.
C20_LoopsReachTheirEnd ==
  /\ DayCursorAdvances
  /\ MinuteCursorAdvances
  /\ MinuteCursorReachesEnd
  /\ DayCursorReachesEnd

\* C21: no bucket result is lost in the merge: two different buckets never
\* produce the same key, so the result has one entry for each bucket processed.
C21_OneEntryPerBucket ==
  /\ \A j, k \in DOMAIN vmcs : j # k => vmcs[j].key # vmcs[k].key
  /\ Len(vmc_serie) = Len(buckets)

====
